---- MODULE Spec2Model ----
(***************************************************************************)
(* Model of the recipe backend: the cache-or-fetch handler getRecipes of   *)
(* controllers/recipeController.js, its POST /print route, and the older   *)
(* fetch-and-store handler getRecipes of the second source file.  The      *)
(* store is the Recipe collection, the provider is fetchRecipes.           *)
(***************************************************************************)
EXTENDS Integers, Sequences, FiniteSets

(* ------------------------------ bounds -------------------------------- *)

\* Concurrent GET /recipes requests of the controller.
NumReqs == 2

\* Longest provider reply whose hits are chosen freely from HitPool.
MaxHits == 1

\* Longest filter token the normalizer is exercised on, character by character.
MaxLen == 3

(* ------------------------- program constants -------------------------- *)

\* recipes.length < 12, slice(0, 12)
MinRecipes == 12

\* data.hits.slice(0, 100)
MaxFetched == 100

\* data.hits.slice(0, 10) of the older handler
LegacyFetched == 10

(* --------------------------- JavaScript values ------------------------ *)

Undefined == [t |-> "undefined"]
Null == [t |-> "null"]
NaN == [t |-> "NaN"]
Num(n) == [t |-> "number", v |-> n]
Str(s) == [t |-> "string", v |-> s]
Arr(s) == [t |-> "array", v |-> s]

Min(a, b) == IF a < b THEN a ELSE b

Range(s) == {s[i] : i \in DOMAIN s}

\* Array.prototype.slice(0, n)
Slice(s, n) == SubSeq(s, 1, Min(n, Len(s)))

\* Number of positions of s holding v.
Count(s, v) == Cardinality({i \in DOMAIN s : s[i] = v})

\* An array of n copies of v.
Repeat(v, n) == [i \in 1..n |-> v]

(* ----------------------------- strings -------------------------------- *)
\* A string is the sequence of its characters.

LowerCase == <<"a", "b", "c", "d", "e", "f", "g", "h", "i", "j", "k", "l", "m",
               "n", "o", "p", "q", "r", "s", "t", "u", "v", "w", "x", "y", "z">>
UpperCase == <<"A", "B", "C", "D", "E", "F", "G", "H", "I", "J", "K", "L", "M",
               "N", "O", "P", "Q", "R", "S", "T", "U", "V", "W", "X", "Y", "Z">>

\* The upper-case letter of each lower-case letter, and the converse.
UpperOf == [c \in Range(LowerCase) |-> UpperCase[CHOOSE i \in 1..26 : LowerCase[i] = c]]
LowerOf == [c \in Range(UpperCase) |-> LowerCase[CHOOSE i \in 1..26 : UpperCase[i] = c]]

\* String.prototype.toUpperCase on one character
CharToUpper(c) == IF c \in DOMAIN UpperOf THEN UpperOf[c] ELSE c

\* String.prototype.toLowerCase on one character
CharToLower(c) == IF c \in DOMAIN LowerOf THEN LowerOf[c] ELSE c

StrToUpper(s) == [i \in DOMAIN s |-> CharToUpper(s[i])]

\* const toLowerCase = (str) => str.toLowerCase();
toLowerCase(s) == [i \in DOMAIN s |-> CharToLower(s[i])]

\* str.split('-'): the segments between hyphens, empty ones included.
RECURSIVE SplitFrom(_, _, _)
SplitFrom(s, i, cur) ==
    IF i > Len(s) THEN <<cur>>
    ELSE IF s[i] = "-" THEN <<cur>> \o SplitFrom(s, i + 1, <<>>)
    ELSE SplitFrom(s, i + 1, Append(cur, s[i]))

Split(s) == SplitFrom(s, 1, <<>>)

\* words.join(sep)
RECURSIVE Join(_, _)
Join(words, sep) ==
    IF Len(words) = 0 THEN <<>>
    ELSE IF Len(words) = 1 THEN words[1]
    ELSE words[1] \o sep \o Join(Tail(words), sep)

\* word.charAt(0).toUpperCase() + word.slice(1).toLowerCase()
CapitalizeWord(word) ==
    IF Len(word) = 0 THEN <<>>
    ELSE <<CharToUpper(word[1])>> \o toLowerCase(Tail(word))

\* A slip: the segments are rejoined without their hyphens.
capitalizeWordsNoHyphen(str) ==
    Join([i \in DOMAIN Split(str) |-> CapitalizeWord(Split(str)[i])], <<>>)

\* const capitalizeWords = (str) => str.split('-').map(...).join('-');
capitalizeWords(str) ==
    Join([i \in DOMAIN Split(str) |-> CapitalizeWord(Split(str)[i])], <<"-">>)

\* labels.map(label => capitalizeWords(label))
CapitalizeAll(labels) == [i \in DOMAIN labels |-> capitalizeWords(labels[i])]

\* labels.map(label => toLowerCase(label))
LowerAll(labels) == [i \in DOMAIN labels |-> toLowerCase(labels[i])]

\* The store form: every hyphen-segment starts with no lower-case letter and
\* continues with no upper-case letter.
IsStoreForm(s) ==
    \A i \in DOMAIN s :
        IF i = 1 \/ s[i - 1] = "-"
        THEN s[i] \notin DOMAIN UpperOf
        ELSE s[i] \notin DOMAIN LowerOf

(* ------------------------------- data --------------------------------- *)

balanced == <<"b", "a", "l", "a", "n", "c", "e", "d">>
lowCarb == <<"l", "o", "w", "-", "c", "a", "r", "b">>
vegan == <<"v", "e", "g", "a", "n">>

\* req.query.diet: absent, one string, or an array of strings
DietInputs == {Undefined, Str(StrToUpper(lowCarb)), Arr(<<balanced, lowCarb>>)}

\* req.query.health
HealthInputs == {Undefined, Arr(<<StrToUpper(vegan)>>)}

\* hit.recipe of a provider hit, in the fields the handlers read
Hit(label, diet, health, calories, yield) ==
    [label |-> label, dietLabels |-> diet, healthLabels |-> health,
     calories |-> calories, yield |-> yield]

\* The hit that the long provider replies repeat: well formed, labels in mixed case.
LongHit ==
    Hit("r1", Arr(<<capitalizeWords(balanced), lowCarb>>), Arr(<<vegan>>), Num(200), Num(2))

\* The hits of the short replies: the well-formed one, one without yield, one
\* without calories and yield, one without dietLabels.
HitPool ==
    { LongHit,
      Hit("r2", Arr(<<StrToUpper(lowCarb)>>), Arr(<<>>), Num(200), Undefined),
      Hit("r3", Arr(<<balanced>>), Arr(<<vegan>>), Undefined, Undefined),
      Hit("r4", Undefined, Arr(<<>>), Num(200), Num(2)) }

\* Lengths of the long replies: one that just fills a page, one that exceeds it.
LongLens == {MinRecipes, MinRecipes + 1}

Obj(hits) == [t |-> "object", hits |-> hits]

\* A reply longer than the slice the handler keeps.
BulkReply == Obj(Arr(Repeat(LongHit, MaxFetched + 1)))

\* What fetchRecipes can resolve to: nothing, an object without hits, or hits.
Replies ==
    {Undefined, Obj(Undefined)}
    \cup {Obj(Arr(s)) : s \in UNION {[1..n -> HitPool] : n \in 0..MaxHits}}
    \cup {Obj(Arr(Repeat(LongHit, n))) : n \in LongLens}

(* ------------------------------ state --------------------------------- *)

VARIABLES
    store,    \* the Recipe collection, in insertion order
    req,      \* the GET /recipes requests of the controller
    legacy,   \* the GET request of the older handler
    printed,  \* the outcome of the last POST /print
    norm      \* the normalizer's input and outputs

vars == <<store, req, legacy, printed, norm>>

Reqs == 1..NumReqs

NoReply == [t |-> "pending"]

IdleReq ==
    [pc |-> "idle", diet |-> Undefined, health |-> Undefined,
     dietCriteriaArray |-> <<>>, healthCriteriaArray |-> <<>>,
     queryParams |-> <<>>, matched |-> <<>>, recipes |-> <<>>,
     data |-> NoReply, fetchedRecipes |-> <<>>,
     lookedUp |-> FALSE, calls |-> 0, inserts |-> 0, status |-> 0, body |-> <<>>]

IdleLegacy ==
    [pc |-> "idle", data |-> NoReply, recipes |-> <<>>, status |-> 0, body |-> <<>>]

IdlePrint == [status |-> 0, pages |-> 0, ended |-> FALSE]

IdleNorm == [pc |-> "unused", x |-> <<>>, once |-> <<>>, twice |-> <<>>, lower |-> <<>>]

Init ==
    /\ store = <<>>
    /\ req = [r \in Reqs |-> IdleReq]
    /\ legacy = IdleLegacy
    /\ printed = IdlePrint
    /\ norm = IdleNorm

(* ------------------- controllers/recipeController.js ------------------ *)

\* req.query.diet || [], then Array.isArray(c) ? c.map(capitalizeWords)
\*                                             : [capitalizeWords(c)]
CriteriaArray(raw) ==
    LET c == IF raw = Undefined \/ raw = Str(<<>>) THEN Arr(<<>>) ELSE raw
    IN  IF c.t = "array" THEN CapitalizeAll(c.v) ELSE <<capitalizeWords(c.v)>>

\* The MongoDB query object: a field is set only for a non-empty criteria array.
Query(dietArray, healthArray) ==
    [dietLabels |-> IF Len(dietArray) > 0 THEN Arr(dietArray) ELSE Undefined,
     healthLabels |-> IF Len(healthArray) > 0 THEN Arr(healthArray) ELSE Undefined]

\* { $all: tokens } on an array field
MatchesAll(labels, cond) ==
    cond = Undefined \/ \A i \in DOMAIN cond.v : cond.v[i] \in Range(labels)

Matches(recipe, query) ==
    /\ MatchesAll(recipe.dietLabels, query.dietLabels)
    /\ MatchesAll(recipe.healthLabels, query.healthLabels)

\* Recipe.find(query, { _id: 0, __v: 0 }).exec()
Find(query) == SelectSeq(store, LAMBDA recipe : Matches(recipe, query))

\* The parameters of queryString, in order: diet=..., then health=...
QueryParams(dietArray, healthArray) ==
    [i \in DOMAIN dietArray |-> <<"diet", LowerAll(dietArray)[i]>>]
    \o [i \in DOMAIN healthArray |-> <<"health", LowerAll(healthArray)[i]>>]

\* A slip: a store holding exactly 12 matches still goes to the provider.
NeedsFallbackOffByOne(recipes) == Len(recipes) <= MinRecipes

\* if (recipes.length < 12)
NeedsFallback(recipes) == Len(recipes) < MinRecipes

\* if (data && data.hits)
HasHits(data) == data.t = "object" /\ data.hits.t = "array"

\* a / b in JavaScript, for a number a and a number or undefined b
Divide(a, b) ==
    IF b.t # "number" THEN NaN
    ELSE IF b.v = 0 THEN (IF a.v = 0 THEN NaN ELSE [t |-> "Infinity"])
    ELSE Num(a.v \div b.v)

\* The object built from one hit; fields the older handler alone sets are absent.
MapHit(hit) ==
    [title |-> hit.label,
     dietLabels |-> CapitalizeAll(hit.dietLabels.v),
     healthLabels |-> CapitalizeAll(hit.healthLabels.v),
     servingSize |-> IF hit.yield # Undefined THEN hit.yield ELSE Null,
     caloriesPerServing |->
         IF hit.calories # Undefined THEN Divide(hit.calories, hit.yield) ELSE Null,
     calories |-> Undefined]

\* hit.recipe.dietLabels.map(...) on a hit without the array is a TypeError.
MapHitThrows(hit) == hit.dietLabels.t # "array" \/ hit.healthLabels.t # "array"

\* A slip: one hit too few is kept.
SlicedHitsShort(data) == Slice(data.hits.v, MaxFetched - 1)

\* data.hits.slice(0, 100)
SlicedHits(data) == Slice(data.hits.v, MaxFetched)

MapThrows(data) == \E i \in DOMAIN SlicedHits(data) : MapHitThrows(SlicedHits(data)[i])

FetchedRecipes(data) == [i \in DOMAIN SlicedHits(data) |-> MapHit(SlicedHits(data)[i])]

\* The arrays that recipes.sort(() => 0.5 - Math.random()).slice(0, n) can be:
\* the first n elements of any reordering of pool, built one element at a time.
RECURSIVE Draws(_, _)
Draws(pool, n) ==
    IF n = 0 \/ Len(pool) = 0 THEN {<<>>}
    ELSE UNION { { <<v>> \o rest :
                   rest \in Draws(LET i == CHOOSE j \in DOMAIN pool : pool[j] = v
                                  IN  SubSeq(pool, 1, i - 1) \o SubSeq(pool, i + 1, Len(pool)),
                                  n - 1) } :
                 v \in Range(pool) }

\* A slip: the fetched records top up the store's matches.
WorkingSetMerged(matched, fetchedRecipes) == matched \o fetchedRecipes

\* recipes = fetchedRecipes;
WorkingSet(matched, fetchedRecipes) == fetchedRecipes

\* A slip: records equal to one of the batch are replaced, not kept.
InsertedAsUpsert(collection, batch) ==
    SelectSeq(collection, LAMBDA recipe : recipe \notin Range(batch)) \o batch

\* Recipe.insertMany(batch): the collection with the batch appended.
InsertedInto(collection, batch) == collection \o batch

\* A slip: the page is one record longer.
SelectionsLong(recipes) == Draws(recipes, MinRecipes + 1)

\* shuffledRecipes.slice(0, 12)
Selections(recipes) == Draws(recipes, MinRecipes)

Respond(r, status, body) ==
    [req[r] EXCEPT !.pc = "done", !.status = status, !.body = body]

\* Lines 13-47: the criteria are normalized, the query is built, find is issued.
Start(r, diet, health) ==
    /\ req[r].pc = "idle"
    /\ req' = [req EXCEPT ![r] =
                  [@ EXCEPT !.pc = "find", !.diet = diet, !.health = health,
                            !.dietCriteriaArray = CriteriaArray(diet),
                            !.healthCriteriaArray = CriteriaArray(health)]]
    /\ UNCHANGED <<store, legacy, printed, norm>>

\* Lines 47-56: find resolves with fewer than 12 records; fetchRecipes is called.
FindInsufficient(r) ==
    LET found == Find(Query(req[r].dietCriteriaArray, req[r].healthCriteriaArray))
    IN  /\ req[r].pc = "find"
        /\ NeedsFallback(found)
        /\ req' = [req EXCEPT ![r] =
                      [@ EXCEPT !.pc = "fetch", !.lookedUp = TRUE,
                                !.matched = found, !.recipes = found,
                                !.queryParams = QueryParams(req[r].dietCriteriaArray,
                                                            req[r].healthCriteriaArray),
                                !.calls = @ + 1]]
        /\ UNCHANGED <<store, legacy, printed, norm>>

\* Lines 47-51, 88-97: find resolves with 12 records or more; they are shuffled
\* and the first 12 are sent.
FindSufficient(r) ==
    LET found == Find(Query(req[r].dietCriteriaArray, req[r].healthCriteriaArray))
    IN  /\ req[r].pc = "find"
        /\ ~NeedsFallback(found)
        /\ \E selectedRecipes \in Selections(found) :
               req' = [req EXCEPT ![r] =
                          [Respond(r, 200, selectedRecipes)
                              EXCEPT !.lookedUp = TRUE,
                                     !.matched = found, !.recipes = found]]
        /\ UNCHANGED <<store, legacy, printed, norm>>

\* Lines 99-103: find rejects.
FindThrows(r) ==
    /\ req[r].pc = "find"
    /\ req' = [req EXCEPT ![r] = Respond(r, 500, <<>>)]
    /\ UNCHANGED <<store, legacy, printed, norm>>

\* A slip: a reply without hits is read as a reply with no hit (data.hits || []).
FetchReturnsLenient(r, reply) ==
    /\ req[r].pc = "fetch"
    /\ req' = [req EXCEPT ![r] =
                  IF ~HasHits(reply)
                  THEN [@ EXCEPT !.pc = "insert", !.data = reply, !.fetchedRecipes = <<>>]
                  ELSE IF MapThrows(reply)
                  THEN [Respond(r, 500, <<>>) EXCEPT !.data = reply]
                  ELSE [@ EXCEPT !.pc = "insert", !.data = reply,
                                 !.fetchedRecipes = FetchedRecipes(reply)]]
    /\ UNCHANGED <<store, legacy, printed, norm>>

\* Lines 56-87: fetchRecipes resolves; without hits the answer is 404, with hits
\* they are sliced and mapped (a TypeError in the mapping is caught: 500) and
\* insertMany is issued.
FetchReturns(r, reply) ==
    /\ req[r].pc = "fetch"
    /\ req' = [req EXCEPT ![r] =
                  IF ~HasHits(reply)
                  THEN [Respond(r, 404, <<>>) EXCEPT !.data = reply]
                  ELSE IF MapThrows(reply)
                  THEN [Respond(r, 500, <<>>) EXCEPT !.data = reply]
                  ELSE [@ EXCEPT !.pc = "insert", !.data = reply,
                                 !.fetchedRecipes = FetchedRecipes(reply)]]
    /\ UNCHANGED <<store, legacy, printed, norm>>

\* Lines 99-103: fetchRecipes rejects.
FetchThrows(r) ==
    /\ req[r].pc = "fetch"
    /\ req' = [req EXCEPT ![r] = Respond(r, 500, <<>>)]
    /\ UNCHANGED <<store, legacy, printed, norm>>

\* Line 80: the collection takes the batch.
InsertMany(r) ==
    /\ req[r].pc = "insert"
    /\ store' = InsertedInto(store, req[r].fetchedRecipes)
    /\ req' = [req EXCEPT ![r] = [@ EXCEPT !.pc = "inserted", !.inserts = @ + 1]]
    /\ UNCHANGED <<legacy, printed, norm>>

\* Lines 99-103: insertMany rejects, nothing of the batch is kept.
InsertThrows(r) ==
    /\ req[r].pc = "insert"
    /\ req' = [req EXCEPT ![r] = Respond(r, 500, <<>>)]
    /\ UNCHANGED <<store, legacy, printed, norm>>

\* Lines 80-97: insertMany resolves; the fetched records replace the store's
\* matches, are shuffled, and the first 12 are sent.
InsertReturns(r) ==
    /\ req[r].pc = "inserted"
    /\ \E selectedRecipes \in
               Selections(WorkingSet(req[r].matched, req[r].fetchedRecipes)) :
           req' = [req EXCEPT ![r] =
                      [Respond(r, 200, selectedRecipes)
                          EXCEPT !.recipes =
                              WorkingSet(req[r].matched, req[r].fetchedRecipes)]]
    /\ UNCHANGED <<store, legacy, printed, norm>>

\* typeof v === 'number': toFixed exists on it.
IsNumber(v) == v.t \in {"number", "NaN", "Infinity"}

\* req.body.recipes of a print request
PrintInputs ==
    {Undefined, Arr(<<>>),
     Arr(<<MapHit(LongHit)>>),
     Arr(<<MapHit(LongHit), MapHit(Hit("r3", Arr(<<>>), Arr(<<>>), Undefined, Undefined))>>)}

\* The recipes written in full before recipe.caloriesPerServing.toFixed throws,
\* or all of them.
PagesWritten(recipes) ==
    IF \E i \in DOMAIN recipes : ~IsNumber(recipes[i].caloriesPerServing)
    THEN (CHOOSE i \in DOMAIN recipes :
              /\ ~IsNumber(recipes[i].caloriesPerServing)
              /\ \A j \in 1..(i - 1) : IsNumber(recipes[j].caloriesPerServing)) - 1
    ELSE Len(recipes)

\* Lines 107-149: router.post('/print'): 400 without recipes; otherwise the
\* document is streamed, and doc.end() is reached unless a TypeError in the loop
\* leaves the stream unfinished.
PostPrint(recipes) ==
    /\ printed' =
           IF recipes = Undefined \/ Len(recipes.v) = 0
           THEN [status |-> 400, pages |-> 0, ended |-> TRUE]
           ELSE [status |-> 200, pages |-> PagesWritten(recipes.v),
                 ended |-> PagesWritten(recipes.v) = Len(recipes.v)]
    /\ UNCHANGED <<store, req, legacy, norm>>

(* --------------------- the older handler (getRecipes) ------------------ *)

\* hit.recipe.dietLabels || []
OrEmpty(labels) == IF labels.t = "array" THEN labels.v ELSE <<>>

\* hit.recipe.calories || 0
OrZero(n) == IF n.t = "number" THEN n ELSE Num(0)

\* The object the older handler builds from one hit: labels are kept as sent.
LegacyMapHit(hit) ==
    [title |-> hit.label,
     dietLabels |-> OrEmpty(hit.dietLabels),
     healthLabels |-> OrEmpty(hit.healthLabels),
     servingSize |-> Undefined,
     caloriesPerServing |-> Undefined,
     calories |-> OrZero(hit.calories)]

\* data.hits.slice(0, 10).map(...)
LegacyRecipes(data) ==
    [i \in DOMAIN Slice(data.hits.v, LegacyFetched) |->
        LegacyMapHit(Slice(data.hits.v, LegacyFetched)[i])]

\* Line 11: fetchRecipes() is called.
LegacyStart ==
    /\ legacy.pc = "idle"
    /\ legacy' = [legacy EXCEPT !.pc = "fetch"]
    /\ UNCHANGED <<store, req, printed, norm>>

\* Lines 15-43: fetchRecipes resolves; hits are mapped and insertMany is issued,
\* or the answer is 404.
LegacyFetchReturns(reply) ==
    /\ legacy.pc = "fetch"
    /\ legacy' =
           IF HasHits(reply)
           THEN [legacy EXCEPT !.pc = "insert", !.data = reply,
                               !.recipes = LegacyRecipes(reply)]
           ELSE [legacy EXCEPT !.pc = "done", !.data = reply, !.status = 404]
    /\ UNCHANGED <<store, req, printed, norm>>

\* Line 35: the collection takes the batch.
LegacyInsertMany ==
    /\ legacy.pc = "insert"
    /\ store' = InsertedInto(store, legacy.recipes)
    /\ legacy' = [legacy EXCEPT !.pc = "inserted"]
    /\ UNCHANGED <<req, printed, norm>>

\* Line 38: res.json(recipes)
LegacyInsertReturns ==
    /\ legacy.pc = "inserted"
    /\ legacy' = [legacy EXCEPT !.pc = "done", !.status = 200, !.body = legacy.recipes]
    /\ UNCHANGED <<store, req, printed, norm>>

\* Lines 44-48: fetchRecipes or insertMany rejects.
LegacyThrows ==
    /\ legacy.pc \in {"fetch", "insert"}
    /\ legacy' = [legacy EXCEPT !.pc = "done", !.status = 500]
    /\ UNCHANGED <<store, req, printed, norm>>

(* ---------------------------- the normalizer --------------------------- *)

NormAlphabet == {"a", "A", "b", "-"}

Tokens == UNION {[1..n -> NormAlphabet] : n \in 0..MaxLen}

InitNorm ==
    /\ store = <<>>
    /\ req = [r \in Reqs |-> IdleReq]
    /\ legacy = IdleLegacy
    /\ printed = IdlePrint
    /\ \E x \in Tokens : norm = [IdleNorm EXCEPT !.pc = "input", !.x = x]

\* capitalizeWords and toLowerCase applied to the token
Normalize ==
    /\ norm.pc = "input"
    /\ norm' = [norm EXCEPT !.pc = "once", !.once = capitalizeWords(norm.x),
                            !.lower = toLowerCase(capitalizeWords(norm.x))]
    /\ UNCHANGED <<store, req, legacy, printed>>

\* capitalizeWords applied to its own output
NormalizeAgain ==
    /\ norm.pc = "once"
    /\ norm' = [norm EXCEPT !.pc = "twice", !.twice = capitalizeWords(norm.once)]
    /\ UNCHANGED <<store, req, legacy, printed>>

(* --------------------------- specifications ---------------------------- *)

Next ==
    \/ \E r \in Reqs : \E diet \in DietInputs, health \in HealthInputs :
           Start(r, diet, health)
    \/ \E r \in Reqs : FindInsufficient(r)
    \/ \E r \in Reqs : FindSufficient(r)
    \/ \E r \in Reqs : FindThrows(r)
    \/ \E r \in Reqs : \E reply \in Replies : FetchReturns(r, reply)
    \/ \E r \in Reqs : FetchThrows(r)
    \/ \E r \in Reqs : InsertMany(r)
    \/ \E r \in Reqs : InsertThrows(r)
    \/ \E r \in Reqs : InsertReturns(r)
    \/ \E recipes \in PrintInputs : PostPrint(recipes)

\* Concurrent controller requests and print requests over one store.
Spec == Init /\ [][Next]_vars

NextAll ==
    \/ \E diet \in DietInputs, health \in HealthInputs : Start(1, diet, health)
    \/ FindInsufficient(1)
    \/ FindThrows(1)
    \/ \E reply \in Replies : FetchReturns(1, reply)
    \/ FetchThrows(1)
    \/ InsertMany(1)
    \/ InsertThrows(1)
    \/ InsertReturns(1)
    \/ LegacyStart
    \/ \E reply \in Replies : LegacyFetchReturns(reply)
    \/ LegacyInsertMany
    \/ LegacyInsertReturns
    \/ LegacyThrows

\* Every handler that inserts: one controller request beside one request of the
\* older handler.  The store never reaches 12 records before the controller's
\* lookup (the older handler inserts at most 10), so FindSufficient has no step.
SpecAll == Init /\ [][NextAll]_vars

NextBulk ==
    \/ \E diet \in DietInputs, health \in HealthInputs : Start(1, diet, health)
    \/ FindInsufficient(1)
    \/ FindThrows(1)
    \/ \E reply \in Replies \cup {BulkReply} : FetchReturns(1, reply)
    \/ FetchThrows(1)
    \/ InsertMany(1)
    \/ InsertThrows(1)
    \/ InsertReturns(1)

\* One controller request on an empty store (its lookup is never sufficient), the
\* provider's replies including one longer than the slice.
SpecBulk == Init /\ [][NextBulk]_vars

NextNorm == Normalize \/ NormalizeAgain

\* The normalizer alone, on every token up to MaxLen characters.
SpecNorm == InitNorm /\ [][NextNorm]_vars

(* ------------------------------ properties ----------------------------- *)

\* Every value occurs in a at most as often as in b.
DrawnFrom(a, b) == \A v \in Range(a) : Count(a, v) <= Count(b, v)

\* The request's store lookup has resolved.
LookedUp(r) == req[r].lookedUp

\* The store lookup resolved with 12 records or more.
ServedFromStore(r) == LookedUp(r) /\ Len(req[r].matched) >= MinRecipes

\* The store lookup resolved with fewer than 12 records.
FellBack(r) == LookedUp(r) /\ Len(req[r].matched) < MinRecipes

\* fetchRecipes resolved with a hits array.
GotHits(r) == req[r].data.t = "object" /\ req[r].data.hits.t = "array"

\* fetchRecipes resolved without a hits container.
GotNoHits(r) == req[r].data = Undefined \/ req[r].data = Obj(Undefined)

\* The first min(100, n) of the n hits, each mapped.
MappedHits(r) ==
    [i \in 1..Min(MaxFetched, Len(req[r].data.hits.v)) |-> MapHit(req[r].data.hits.v[i])]

\* The set the sample is taken from, as the specification defines it.
WorkingSetOf(r) == IF ServedFromStore(r) THEN req[r].matched ELSE MappedHits(r)

RECURSIVE SumOver(_, _)
SumOver(f, S) ==
    IF S = {} THEN 0
    ELSE LET x == CHOOSE y \in S : TRUE IN f[x] + SumOver(f, S \ {x})

\* C1: a request whose store lookup returns 12 records or more never calls the
\* provider and never inserts, and answers 200 with records drawn from the
\* lookup's result.
C1_StoreSufficient ==
    \A r \in Reqs :
        ServedFromStore(r) =>
            /\ req[r].calls = 0
            /\ req[r].inserts = 0
            /\ req[r].data = NoReply
            /\ req[r].fetchedRecipes = <<>>
            /\ req[r].pc = "done" /\ req[r].status = 200
            /\ DrawnFrom(req[r].body, req[r].matched)

\* A request with a health filter found exactly 12 matches and was served them.
C1_Witness ==
    \E r \in Reqs :
        /\ ServedFromStore(r)
        /\ Len(req[r].matched) = MinRecipes
        /\ req[r].health # Undefined
        /\ req[r].status = 200

\* C2: the provider is called at most once per request and never before the
\* store lookup has resolved; after a lookup with fewer than 12 records it has
\* been called exactly once, and a 200 response then holds only records of the
\* provider's mapped output, each at most as often as it occurs there.
C2_FallbackOnce ==
    \A r \in Reqs :
        /\ req[r].calls <= 1
        /\ ~LookedUp(r) => req[r].calls = 0
        /\ FellBack(r) => req[r].calls = 1
        /\ (FellBack(r) /\ req[r].status = 200) =>
               /\ GotHits(r)
               /\ DrawnFrom(req[r].body, MappedHits(r))

\* A request found a match in the store, fell back, and answered with a
\* provider record that is none of its store matches.
C2_Witness ==
    \E r \in Reqs :
        /\ FellBack(r)
        /\ Len(req[r].matched) > 0
        /\ req[r].status = 200
        /\ Len(req[r].body) > 0
        /\ \E i \in DOMAIN req[r].body : req[r].body[i] \notin Range(req[r].matched)

\* C3: a 200 response holds min(12, size of the working set) records, each a
\* record of the working set and none more often than the working set holds it.
C3_ResponseSize ==
    \A r \in Reqs :
        req[r].status = 200 =>
            /\ Len(req[r].body) = Min(MinRecipes, Len(WorkingSetOf(r)))
            /\ DrawnFrom(req[r].body, WorkingSetOf(r))

\* A working set of more than 12 records was cut to 12, after another request
\* returned fewer than 12 from a smaller working set.
C3_Witness ==
    \E r, q \in Reqs :
        /\ req[r].status = 200
        /\ Len(WorkingSetOf(r)) > MinRecipes
        /\ Len(req[r].body) = MinRecipes
        /\ req[q].status = 200
        /\ Len(req[q].body) > 0
        /\ Len(req[q].body) < MinRecipes

\* C4: every record of a 200 response carries every supplied diet token and
\* every supplied health token, in store form.
C4_AllTokens ==
    \A r \in Reqs :
        req[r].status = 200 =>
            \A i \in DOMAIN req[r].body :
                /\ Range(CriteriaArray(req[r].diet)) \subseteq Range(req[r].body[i].dietLabels)
                /\ Range(CriteriaArray(req[r].health)) \subseteq Range(req[r].body[i].healthLabels)

\* C5: a request whose provider reply has no hits container ends with 404 and
\* no records, maps nothing and inserts nothing; the store holds exactly the
\* batches of the requests that inserted.
C5_NotFound ==
    /\ \A r \in Reqs :
           GotNoHits(r) =>
               /\ req[r].pc = "done" /\ req[r].status = 404
               /\ req[r].body = <<>>
               /\ req[r].fetchedRecipes = <<>>
               /\ req[r].inserts = 0
    /\ Len(store) =
           SumOver([r \in Reqs |-> IF req[r].inserts > 0
                                   THEN Len(req[r].fetchedRecipes) ELSE 0], Reqs)

\* One request got 404 for an object without hits while the store was not empty.
C5_Witness ==
    \E r \in Reqs :
        /\ req[r].data = Obj(Undefined)
        /\ req[r].status = 404
        /\ Len(store) > 0

\* C6: a mapped record whose hit has no yield has no caloriesPerServing.
C6_NoYieldNoCalories ==
    \A r \in Reqs :
        (GotHits(r) /\ req[r].fetchedRecipes # <<>>) =>
            \A i \in DOMAIN req[r].fetchedRecipes :
                req[r].data.hits.v[i].yield = Undefined =>
                    req[r].fetchedRecipes[i].caloriesPerServing = Null

\* C7: every diet and health label of every stored record is a fixed point of
\* capitalizeWords, in Title-Case-with-hyphens form.
C7_StoredLabelsTitleCase ==
    \A i \in DOMAIN store :
        \A label \in Range(store[i].dietLabels) \cup Range(store[i].healthLabels) :
            capitalizeWords(label) = label /\ IsStoreForm(label)

C9_Idempotent ==
    norm.pc = "twice" => norm.twice = norm.once

\* A token with a hyphen that normalization changed has been normalized twice.
C9_Witness ==
    /\ norm.pc = "twice"
    /\ "-" \in Range(norm.x)
    /\ norm.once # norm.x
    /\ Len(norm.x) = MaxLen

\* C10: every step keeps the store as a prefix of the new store; a step changes
\* the store only by appending the batch of a request at insertMany; a step in
\* which a request answers, or a print request is served, leaves it unchanged.
C10_AppendOnly ==
    [][ /\ Len(store) <= Len(store')
        /\ SubSeq(store', 1, Len(store)) = store
        /\ store' # store =>
               \E r \in Reqs :
                   /\ req[r].pc = "insert" /\ req'[r].pc = "inserted"
                   /\ FellBack(r)
                   /\ store' = store \o req[r].fetchedRecipes
        /\ \A r \in Reqs : req'[r].status # req[r].status => store' = store
        /\ printed' # printed => store' = store ]_vars

\* Two requests both saw fewer than 12 matches and both inserted the same
\* record, which the store now holds twice.
C10_Witness ==
    /\ \A r \in Reqs : FellBack(r) /\ req[r].inserts = 1 /\ req[r].matched = <<>>
    /\ \E v \in Range(store) : Count(store, v) >= 2
    /\ printed.status # 0

====
